---- MODULE Spec2Model ----
(***************************************************************************)
(* Telemetry ingestion pipeline of SeaLinkApp (src/sealie.py): the serial  *)
(* read loop, the AS7341 frame aggregator, the delimited decoder with      *)
(* sensor auto-registration, the templated-regex and legacy decoders, the  *)
(* bounded stream store and the deferred (Tk "after") callbacks.           *)
(*                                                                         *)
(* Conventions.  Floats are integers.  Time is counted in tenths of a      *)
(* second.  A value as it appears in a line or in a decoded field map is a *)
(* token: a number, a non-numeric text, or None.  A line is a record       *)
(*   form  "empty" | "csv" | "kv" | "banner" | "tpl" | "legacy" |          *)
(*         "legacyc" | "text"                                              *)
(*   head  the text up to the first comma / blank ("" if none); for the    *)
(*         legacy forms the key of the first KEY:VALUE token               *)
(*   toks  the value tokens after the head (csv, tpl, legacyc)             *)
(*   kv    the KEY:VALUE pairs the line carries (kv, legacy, legacyc)      *)
(* "legacy" lines separate their tokens by blanks, "legacyc" by commas.    *)
(***************************************************************************)
EXTENDS Integers, Sequences, FiniteSets, TLC

VARIABLES
    is_connected,             \* self.is_connected
    pc,                       \* the read thread of the latest connection:
                              \* "idle" | "running" | "exited"
    stale_threads,            \* read threads of earlier connections still alive
    serial_conn,              \* self.serial_conn: "none" | "open" | "closed"
    port_lost,                \* the device behind the open port is gone (environment)
    ingest_pc,                \* statements executed by the deferred ingest that
                              \* the UI thread is running, 0 when it runs none
    no_data_counter,          \* local of read_serial
    clock,                    \* time.time() - self.start_time, in tenths of a second
    template_source,          \* content of sensor_templates.json (environment)
    template_cache,           \* self._template_cache
    active_sensors,           \* self.active_sensors
    generic_streams,          \* self.generic_streams
    as7341_buf,               \* self._as7341_buf
    time_data, temp_data, hum_data,   \* climate series
    yaw, pitch, roll,         \* orientation state
    cal_yaw, cal_pitch, cal_roll,     \* calibration offset
    view3d,                   \* the angles the 3D plot was last drawn with
    data_log,                 \* self.data_log
    after_queue,              \* callbacks queued with self.after(0, ...)
    sensors_refresh_pending,  \* self._sensors_refresh_pending
    as7341_bars,              \* names whose self.as7341_state[name]["bars"] is non-empty
    sensor_cards,             \* the cards of the sensors view, as last built
    notes,                    \* show_notification calls, counted per kind
    nread,                    \* history: number of readline() calls made
    last,                     \* history: outcome of the latest loop iteration and
                              \* how many active sensors' parsers matched its line
    empty_run,                \* history: empty reads in a row (strict) and since
                              \* the last non-empty line (quiet), and reads in a
                              \* row that brought no data (nondata), per thread
    hist,                     \* history: samples appended to each stream, in order
    seen                      \* history: what the aggregator received and when

vars == <<is_connected, pc, no_data_counter, clock, template_source,
          template_cache, active_sensors, generic_streams, as7341_buf,
          time_data, temp_data, hum_data, yaw, pitch, roll, cal_yaw,
          cal_pitch, cal_roll, view3d, data_log,
          after_queue, sensors_refresh_pending, as7341_bars, notes, nread, last,
          empty_run, hist, seen, stale_threads, serial_conn, port_lost,
          ingest_pc, sensor_cards>>

\* what only the connection handlers, the environment and the statement-wise
\* ingest change
thread_vars == <<stale_threads, serial_conn, port_lost, ingest_pc>>

\* the variables the decoding handlers work on
prog_vars == <<template_cache, active_sensors, generic_streams, as7341_buf,
               time_data, temp_data, hum_data, yaw, pitch, roll, cal_yaw,
               cal_pitch, cal_roll, view3d, data_log, after_queue,
               sensors_refresh_pending, as7341_bars, sensor_cards, notes,
               hist, seen>>

(***************************************************************************)
(* Program constants                                                       *)
(***************************************************************************)
GenericCap == 200
ClimateCap == 100
StaleWindow == 15
NoDataThreshold == 10
SentinelLimit == -120

AS7341Keys == <<"F1", "F2", "F3", "F4", "F5", "F6", "F7", "F8", "CLEAR", "NIR">>
AS7341KeySet == {AS7341Keys[i] : i \in 1..Len(AS7341Keys)}

(***************************************************************************)
(* Tokens, maps, sequences                                                 *)
(***************************************************************************)
Num(n) == [k |-> "num", v |-> n]
Str == [k |-> "str", v |-> 0]
NoneTok == [k |-> "none", v |-> 0]

EmptyMap == [x \in {} |-> 0]
Get(m, key, dflt) == IF key \in DOMAIN m THEN m[key] ELSE dflt
Put(m, key, val) == [x \in DOMAIN m \cup {key} |-> IF x = key THEN val ELSE m[x]]
Range(s) == {s[i] : i \in 1..Len(s)}

\* seq[-cap:]
LastN(s, cap) == IF Len(s) > cap THEN SubSeq(s, Len(s) - cap + 1, Len(s)) ELSE s

\* str.upper() on the type names that occur
Upper(s) ==
    CASE s = "tds" -> "TDS"
      [] s = "mpu6050" -> "MPU6050"
      [] s = "as7341" -> "AS7341"
      [] s = "yaw" -> "YAW"
      [] s = "pitch" -> "PITCH"
      [] s = "roll" -> "ROLL"
      [] s = "temp" -> "TEMP"
      [] s = "hum" -> "HUM"
      [] OTHER -> s

\* float(v) in the delimited decoder: a non-numeric token becomes 0.0
FloatOrZero(tok) == IF tok.k = "num" THEN tok.v ELSE 0

(***************************************************************************)
(* The program state the handlers read and write, threaded through the     *)
(* sequential code as a record.  raised: an exception is propagating.      *)
(***************************************************************************)
Prog ==
    [active_sensors |-> active_sensors, generic_streams |-> generic_streams,
     template_cache |-> template_cache, as7341_buf |-> as7341_buf,
     time_data |-> time_data, temp_data |-> temp_data, hum_data |-> hum_data,
     yaw |-> yaw, pitch |-> pitch, roll |-> roll, cal_yaw |-> cal_yaw,
     cal_pitch |-> cal_pitch, cal_roll |-> cal_roll, view3d |-> view3d,
     data_log |-> data_log,
     after_queue |-> after_queue,
     sensors_refresh_pending |-> sensors_refresh_pending,
     as7341_bars |-> as7341_bars, sensor_cards |-> sensor_cards,
     notes |-> notes, hist |-> hist,
     seen |-> seen, raised |-> FALSE]

Commit(st) ==
    /\ active_sensors' = st.active_sensors
    /\ generic_streams' = st.generic_streams
    /\ template_cache' = st.template_cache
    /\ as7341_buf' = st.as7341_buf
    /\ time_data' = st.time_data
    /\ temp_data' = st.temp_data
    /\ hum_data' = st.hum_data
    /\ yaw' = st.yaw
    /\ pitch' = st.pitch
    /\ roll' = st.roll
    /\ cal_yaw' = st.cal_yaw
    /\ cal_pitch' = st.cal_pitch
    /\ cal_roll' = st.cal_roll
    /\ view3d' = st.view3d
    /\ data_log' = st.data_log
    /\ after_queue' = st.after_queue
    /\ sensors_refresh_pending' = st.sensors_refresh_pending
    /\ as7341_bars' = st.as7341_bars
    /\ sensor_cards' = st.sensor_cards
    /\ notes' = st.notes
    /\ hist' = st.hist
    /\ seen' = st.seen

Raise(st) == [st EXCEPT !.raised = TRUE]

NoteKinds == {"nodata", "unrecognized", "error", "data", "calibrated"}

ShowNotification(st, kind) == [st EXCEPT !.notes[kind] = @ + 1]

\* log_data: one record per reading (the table and the CSV recorder are sinks)
LogData(st, sensor, values) ==
    [st EXCEPT !.data_log = Append(@, [sensor |-> sensor, values |-> values])]

RequestSensorsRefresh(st) ==
    IF st.sensors_refresh_pending THEN st
    ELSE [st EXCEPT !.sensors_refresh_pending = TRUE]

\* the types whose card plots the sensor's stream
PlotTypes == {"BMP280", "TDS", "SOIL", "LDR", "DS18B20", "UV"}

\* build_sensor_card: what the card of a sensor shows.  A plotted card reads
\* the stream's time series and the series of each field; ax.plot raises
\* when the two differ in length ("torn").
BuildSensorCard(st, sensor) ==
    IF Upper(sensor.type) = "AS7341" THEN "bars"
    ELSE IF Upper(sensor.type) \notin PlotTypes THEN "card"
    ELSE IF sensor.name \notin DOMAIN st.generic_streams THEN "nodata"
    ELSE LET stream == st.generic_streams[sensor.name]
             series(f) == IF f \in DOMAIN stream THEN stream[f] ELSE << >>
         IN IF \E i \in 1..Len(sensor.fields) :
                  Len(series(sensor.fields[i])) # Len(stream["time"])
            THEN "torn" ELSE "plot"

\* build_sensors_tab: rebuilds the cards in order, up to the first card that
\* raises (every caller drops the exception); an AS7341 card creates its bars
BuildSensorsTab(st) ==
    LET all == [i \in 1..Len(st.active_sensors) |->
                  BuildSensorCard(st, st.active_sensors[i])]
        torn == {i \in 1..Len(all) : all[i] = "torn"}
        built == IF torn = {} THEN all
                 ELSE SubSeq(all, 1, CHOOSE i \in torn : \A j \in torn : i <= j)
    IN [st EXCEPT
          !.sensor_cards = built,
          !.as7341_bars = @ \cup {st.active_sensors[i].name : i \in
                                    {j \in 1..Len(built) : built[j] = "bars"}}]

AppendDhtData(st, temp, hum, now) ==
    [st EXCEPT
        !.time_data = LastN(Append(@, now), ClimateCap),
        !.temp_data = LastN(Append(@, temp), ClimateCap),
        !.hum_data = LastN(Append(@, hum), ClimateCap),
        !.hist.climate = Append(@, [t |-> now, temp |-> temp, hum |-> hum])]

\* a faulty variant of Update3dOrientation: the normalized angles are also
\* written back to the orientation
Update3dOrientationInPlace(st) ==
    [st EXCEPT !.view3d = [yaw |-> st.yaw - st.cal_yaw,
                           pitch |-> st.pitch - st.cal_pitch,
                           roll |-> st.roll - st.cal_roll],
               !.yaw = st.yaw - st.cal_yaw,
               !.pitch = st.pitch - st.cal_pitch,
               !.roll = st.roll - st.cal_roll]

\* update_3d_orientation: the cube is drawn rotated by the orientation
\* minus the calibration offset; the orientation itself is not written
Update3dOrientation(st) ==
    [st EXCEPT !.view3d = [yaw |-> st.yaw - st.cal_yaw,
                           pitch |-> st.pitch - st.cal_pitch,
                           roll |-> st.roll - st.cal_roll]]

(***************************************************************************)
(* _ingest_template_sensor                                                 *)
(***************************************************************************)
EmptyStream == [x \in {"time"} |-> << >>]

\* the loop over sensor["fields"]: append float(data.get(f, 0.0)), then trim
RECURSIVE AppendFields(_, _, _, _)
AppendFields(stream, fields, data, i) ==
    IF i > Len(fields) THEN [stream |-> stream, ok |-> TRUE]
    ELSE LET f == fields[i]
             tok == Get(data, f, Num(0))
         IN IF tok.k # "num" THEN [stream |-> stream, ok |-> FALSE]
            ELSE AppendFields(
                    Put(stream, f, LastN(Append(Get(stream, f, << >>), tok.v), GenericCap)),
                    fields, data, i + 1)

IngestGeneric(st, sensor, data, now) ==
    LET s_type == Upper(sensor.type)
        s_name == sensor.name
        stream0 == Get(st.generic_streams, s_name, EmptyStream)
        stream1 == Put(stream0, "time", Append(Get(stream0, "time", << >>), now))
        res == AppendFields(stream1, sensor.fields, data, 1)
    IN IF ~res.ok
       THEN Raise([st EXCEPT !.generic_streams = Put(@, s_name, res.stream)])
       ELSE LET stream2 == Put(res.stream, "time", LastN(res.stream["time"], GenericCap))
                values == [i \in 1..Len(sensor.fields) |->
                              Get(data, sensor.fields[i], NoneTok)]
                sample == [t |-> now,
                           vals |-> [i \in 1..Len(sensor.fields) |->
                                        Get(data, sensor.fields[i], Num(0)).v]]
                st1 == [st EXCEPT
                          !.generic_streams = Put(@, s_name, stream2),
                          !.hist.generic = Put(@, s_name,
                                               Append(Get(@, s_name, << >>), sample))]
            IN RequestSensorsRefresh(LogData(st1, s_type, values))

IngestDht(st, data, now) ==
    LET temp == Get(data, "TEMP", Num(0))
        hum == Get(data, "HUM", Num(0))
    IN IF temp.k # "num" \/ hum.k # "num" THEN Raise(st)
       ELSE LogData(AppendDhtData(st, temp.v, hum.v, now), "DHT",
                    <<Num(temp.v), Num(hum.v)>>)

IngestMpu(st, data) ==
    LET y == Get(data, "YAW", Num(0))
        p == Get(data, "PITCH", Num(0))
        r == Get(data, "ROLL", Num(0))
    IN IF y.k # "num" THEN Raise(st)
       ELSE IF p.k # "num" THEN Raise([st EXCEPT !.yaw = y.v])
       ELSE IF r.k # "num" THEN Raise([st EXCEPT !.yaw = y.v, !.pitch = p.v])
       ELSE Update3dOrientation(
               LogData([st EXCEPT !.yaw = y.v, !.pitch = p.v, !.roll = r.v],
                       "3D Orientation", <<Num(y.v), Num(p.v), Num(r.v)>>))

Max0(n) == IF n > 0 THEN n ELSE 0

\* the spectrometer branch; the dark baseline is empty unless the user sets it
IngestAs7341(st, sensor, data) ==
    IF \E i \in 1..8 : Get(data, AS7341Keys[i], Num(0)).k # "num" THEN Raise(st)
    ELSE LET vals == [i \in 1..8 |-> Num(Max0(Get(data, AS7341Keys[i], Num(0)).v))]
             st1 == IF sensor.name \in st.as7341_bars THEN st
                    ELSE RequestSensorsRefresh(st)
         IN LogData(st1, "AS7341", vals)

IngestTemplateSensor(st, sensor, data, now) ==
    LET s_type == Upper(sensor.type)
    IN CASE s_type \in {"DHT11", "DHT22"} -> IngestDht(st, data, now)
         [] s_type \in {"MPU6050", "ITG/MPU6050"} -> IngestMpu(st, data)
         [] s_type = "AS7341" -> IngestAs7341(st, sensor, data)
         [] OTHER -> IngestGeneric(st, sensor, data, now)

(***************************************************************************)
(* Sensor template registry                                                *)
(* template_source is [state |-> "absent" | "malformed" | "ok", tpls];     *)
(* a template is [type, fields, regex, valid]: regex says that it has a    *)
(* parser pattern, valid that the pattern compiles.                        *)
(***************************************************************************)
NotLoaded == [loaded |-> FALSE, map |-> EmptyMap]

LoadTemplatesIfNeeded(st) ==
    IF st.template_cache.loaded THEN st
    ELSE IF template_source.state # "ok"
            \/ \E i \in 1..Len(template_source.tpls) :
                  template_source.tpls[i].regex /\ ~template_source.tpls[i].valid
         THEN [st EXCEPT !.template_cache = [loaded |-> TRUE, map |-> EmptyMap]]
         ELSE LET tpls == template_source.tpls
                  types == {Upper(tpls[i].type) : i \in 1..Len(tpls)}
                  \* a later template of the same type replaces an earlier one
                  pick(ty) == tpls[CHOOSE i \in 1..Len(tpls) :
                                      /\ Upper(tpls[i].type) = ty
                                      /\ \A j \in 1..Len(tpls) :
                                            Upper(tpls[j].type) = ty => j <= i]
              IN [st EXCEPT !.template_cache =
                    [loaded |-> TRUE,
                     map |-> [ty \in types |->
                                [type |-> pick(ty).type, fields |-> pick(ty).fields,
                                 compiled |-> pick(ty).regex]]]]

\* _get_template_by_type, on the loaded cache: the template or none
HasTemplate(st, type_str) == Upper(type_str) \in DOMAIN st.template_cache.map
TemplateOf(st, type_str) == st.template_cache.map[Upper(type_str)]

InitStream(st, sensor) ==
    IF sensor.name \in DOMAIN st.generic_streams THEN st
    ELSE [st EXCEPT !.generic_streams =
            Put(@, sensor.name,
                [x \in {"time"} \cup Range(sensor.fields) |-> << >>])]

\* index of the first element of seq satisfying Test, 0 if none
FirstIndex(seq, Test(_)) ==
    IF \E i \in 1..Len(seq) : Test(seq[i])
    THEN CHOOSE i \in 1..Len(seq) :
            Test(seq[i]) /\ \A j \in 1..(i - 1) : ~Test(seq[j])
    ELSE 0

(***************************************************************************)
(* _parse_csv_sensor_line                                                  *)
(***************************************************************************)
GenericFields(n) == [i \in 1..n |->
    CASE i = 1 -> "F1" [] i = 2 -> "F2" [] i = 3 -> "F3" [] OTHER -> "F4"]

\* a faulty variant of CsvMatches: the sensor is looked up by name, not type
CsvMatchesByName(s, sensor_type) ==
    LET t == Upper(s.name)
    IN \/ t = sensor_type
       \/ sensor_type = "MPU6050" /\ t \in {"MPU6050", "ITG/MPU6050"}

CsvMatches(s, sensor_type) ==
    LET t == Upper(s.type)
    IN \/ t = sensor_type
       \/ sensor_type = "MPU6050" /\ t \in {"MPU6050", "ITG/MPU6050"}

\* the sensor synthesized for an unseen type
CsvNewSensor(st, sensor_type, nvals) ==
    IF HasTemplate(st, sensor_type)
    THEN [type |-> sensor_type, name |-> sensor_type,
          fields |-> TemplateOf(st, sensor_type).fields,
          compiled |-> TemplateOf(st, sensor_type).compiled]
    ELSE [type |-> sensor_type, name |-> sensor_type,
          fields |-> GenericFields(nvals), compiled |-> FALSE]

\* a faulty variant of IsSentinel: the test excludes the limit itself
IsSentinelBelowLimit(sensor_type, values) ==
    sensor_type = "DS18B20" /\ Len(values) >= 1 /\ values[1] < SentinelLimit

IsSentinel(sensor_type, values) ==
    sensor_type = "DS18B20" /\ Len(values) >= 1 /\ values[1] <= SentinelLimit

\* a faulty variant of CsvData: fields without a value are left out
CsvDataUnpadded(sensor_type, fields, values0) ==
    [f \in {fields[i] : i \in 1..Len(fields) \cap 1..Len(values0)} |->
        Num(values0[CHOOSE j \in 1..Len(fields) : fields[j] = f])]

\* the values mapped onto the fields: padded with 0.0 or cut
CsvData(sensor_type, fields, values0) ==
    LET values == IF sensor_type \in {"MPU6050", "ITG/MPU6050"}
                     /\ Len(fields) = 3 /\ Len(values0) = 2
                  THEN <<0>> \o values0 ELSE values0
    IN [f \in Range(fields) |->
          LET i == CHOOSE j \in 1..Len(fields) :
                      fields[j] = f /\ \A m \in (j + 1)..Len(fields) : fields[m] # f
          IN Num(IF i <= Len(values) THEN values[i] ELSE 0)]

\* len(line.split(",")) >= 2; a "kv" line with a head is "HEAD, K:V, K:V, ..."
HasComma(line) ==
    line.form \in {"csv", "legacyc"} \/ (line.form = "kv" /\ line.head # "")

\* parts[1:]; a token K:V is not a number for float()
CsvToks(line) ==
    IF line.form = "kv" THEN [i \in 1..Cardinality(DOMAIN line.kv) |-> Str]
    ELSE line.toks

\* parts[0].upper(): of a comma-separated KEY:VALUE line the whole first token
FirstPartUpper(line) ==
    IF line.form = "legacyc"
    THEN Upper(line.head) \o ":" \o ToString(line.kv[line.head].v)
    ELSE Upper(line.head)

\* returns [st, ret]
ParseCsvSensorLine(st, line) ==
    IF ~HasComma(line) THEN [st |-> st, ret |-> FALSE]
    ELSE LET sensor_type == FirstPartUpper(line)
             Test(s) == CsvMatches(s, sensor_type)
             idx == FirstIndex(st.active_sensors, Test)
             stL == IF idx = 0 THEN LoadTemplatesIfNeeded(st) ELSE st
             match_sensor == IF idx # 0 THEN st.active_sensors[idx]
                             ELSE CsvNewSensor(stL, sensor_type, Len(CsvToks(line)))
             st1 == IF idx # 0 THEN st
                    ELSE BuildSensorsTab(InitStream(
                            [stL EXCEPT !.active_sensors = Append(@, match_sensor)],
                            match_sensor))
             values == [i \in 1..Len(CsvToks(line)) |->
                          FloatOrZero(CsvToks(line)[i])]
         IN IF IsSentinel(sensor_type, values) THEN [st |-> st1, ret |-> TRUE]
            ELSE [st |-> [st1 EXCEPT !.after_queue =
                            Append(@, [sensor |-> match_sensor,
                                       data |-> CsvData(sensor_type,
                                                        match_sensor.fields, values),
                                       line |-> line])],  \* line: history only
                  ret |-> TRUE]

(***************************************************************************)
(* _try_parse_as7341                                                       *)
(***************************************************************************)
StartsWithAs7341(line) ==
    line.form \in {"csv", "kv", "banner"} /\ Upper(line.head) = "AS7341"

\* rx.findall(line): the channel KEY:VALUE pairs of the line
Matches(line) ==
    IF line.form = "kv"
    THEN [key \in DOMAIN line.kv \cap AS7341KeySet |-> line.kv[key].v]
    ELSE EmptyMap

As7341NewSensor(st) ==
    IF HasTemplate(st, "AS7341")
    THEN [type |-> "AS7341", name |-> "AS7341",
          fields |-> TemplateOf(st, "AS7341").fields,
          compiled |-> TemplateOf(st, "AS7341").compiled]
    ELSE [type |-> "AS7341", name |-> "AS7341", fields |-> AS7341Keys,
          compiled |-> FALSE]

\* the buffer after the staleness test of a line read at time now
FreshOrKept(buf, now) ==
    IF now - buf.t > StaleWindow THEN [data |-> EmptyMap, t |-> now] ELSE buf

\* a faulty variant of Merge: a key already buffered keeps its value
MergeKeepBuffered(data, matches) ==
    [key \in DOMAIN data \cup DOMAIN matches |->
        IF key \in DOMAIN data THEN data[key] ELSE matches[key]]

\* merging the pairs of a line into the buffer
Merge(data, matches) ==
    [key \in DOMAIN data \cup DOMAIN matches |->
        IF key \in DOMAIN matches THEN matches[key] ELSE data[key]]

\* returns [st, ret, frame]: frame is the reading emitted, if any
TryParseAs7341(st, line, now) ==
    LET matches == Matches(line)
        declined == \/ DOMAIN matches = {} /\ ~StartsWithAs7341(line)
                    \/ StartsWithAs7341(line) /\ line.form = "csv"
        buf0 == FreshOrKept(st.as7341_buf, now)
        buf1 == [data |-> Merge(buf0.data, matches), t |-> now]
        \* history: what was received, when, and whether the keys now buffered
        \* were received more than the window apart
        \* history: the buffered keys that were not discarded although the
        \* key update before them was more than the window ago
        kept == DOMAIN buf0.data
        stale1 == IF DOMAIN matches # {}
                     /\ now - st.seen.last_key_at > StaleWindow
                  THEN kept \ DOMAIN matches
                  ELSE (st.seen.stale \cap kept) \ DOMAIN matches
        \* history: the keys received on lines that followed one another
        \* within the window, since the last complete set
        chain == IF now - st.seen.last_line_at > StaleWindow THEN {}
                 ELSE st.seen.keys
        keys1 == IF AS7341KeySet \subseteq chain \cup DOMAIN matches THEN {}
                 ELSE chain \cup DOMAIN matches
        seen1 == IF DOMAIN matches = {} THEN
                    [st.seen EXCEPT !.stale = stale1, !.keys = keys1,
                                    !.last_line_at = now]
                 ELSE [val |-> [key \in DOMAIN st.seen.val \cup DOMAIN matches |->
                                  IF key \in DOMAIN matches THEN matches[key]
                                  ELSE st.seen.val[key]],
                       last_key_at |-> now,
                       stale |-> stale1,
                       keys |-> keys1, last_line_at |-> now]
        complete == AS7341KeySet \subseteq DOMAIN buf1.data
    IN IF declined THEN [st |-> st, ret |-> FALSE, frame |-> EmptyMap]
       ELSE IF ~complete
       THEN [st |-> [st EXCEPT !.as7341_buf = buf1, !.seen = seen1],
             ret |-> DOMAIN matches # {}, frame |-> EmptyMap]
       ELSE LET data == [key \in AS7341KeySet |-> Num(buf1.data[key])]
                Test(s) == Upper(s.type) = "AS7341"
                idx == FirstIndex(st.active_sensors, Test)
                stL == IF idx = 0 THEN LoadTemplatesIfNeeded(st) ELSE st
                sensor == IF idx # 0 THEN st.active_sensors[idx]
                          ELSE As7341NewSensor(stL)
                st1 == IF idx # 0 THEN st
                       ELSE RequestSensorsRefresh(InitStream(
                               [stL EXCEPT !.active_sensors = Append(@, sensor)],
                               sensor))
                st2 == [st1 EXCEPT !.as7341_buf = buf1, !.seen = seen1]
                st3 == IngestTemplateSensor(st2, sensor, data, now)
            IN IF st3.raised THEN [st |-> st3, ret |-> FALSE, frame |-> buf1.data]
               ELSE [st |-> [st3 EXCEPT !.as7341_buf = [data |-> EmptyMap, t |-> now]],
                     ret |-> TRUE, frame |-> buf1.data]

(***************************************************************************)
(* read_serial: the templated-regex pass and the legacy fallback           *)
(***************************************************************************)
\* rx.match(line): a template's pattern matches the "tpl" lines of its type
\* and captures one group per field
RegexMatches(sensor, line) ==
    sensor.compiled /\ line.form = "tpl" /\ Upper(line.head) = Upper(sensor.type)

GroupDict(sensor, line) ==
    [f \in {sensor.fields[i] : i \in 1..Len(sensor.fields) \cap 1..Len(line.toks)} |->
        line.toks[CHOOSE i \in 1..Len(sensor.fields) : sensor.fields[i] = f]]

\* (F - 32) * 5 / 9; the lines fed carry temperatures for which it is exact
FtoC(temp_f) == ((temp_f - 32) * 5) \div 9

\* line.replace(",", " ").split() gives the KEY:VALUE tokens of both forms
IsLegacyForm(line) == line.form \in {"legacy", "legacyc"}

\* float(<first part starting with key>.split(":")[1]) fails when the key is
\* missing or the value is not numeric
LegacyOk(line, key) == key \in DOMAIN line.kv /\ line.kv[key].k = "num"

\* line.startswith("YAW"): the fields are assigned one after the other
LegacyYaw(st, line, now) ==
    LET val(key) == line.kv[key].v
        fail(s) == ShowNotification(s, "error")
    IN IF ~LegacyOk(line, "YAW") THEN fail(st)
       ELSE IF ~LegacyOk(line, "PITCH") THEN fail([st EXCEPT !.yaw = val("YAW")])
       ELSE IF ~LegacyOk(line, "ROLL")
       THEN fail([st EXCEPT !.yaw = val("YAW"), !.pitch = val("PITCH")])
       ELSE LET st1 == [st EXCEPT !.yaw = val("YAW"), !.pitch = val("PITCH"),
                                  !.roll = val("ROLL")]
            IN IF ~LegacyOk(line, "TEMP") \/ ~LegacyOk(line, "HUM") THEN fail(st1)
               ELSE ShowNotification(Update3dOrientation(
                      LogData(AppendDhtData(st1, FtoC(val("TEMP")), val("HUM"), now),
                              "3D Orientation",
                              <<Num(val("YAW")), Num(val("PITCH")), Num(val("ROLL"))>>)),
                      "data")

\* line.startswith("TEMP") or line.startswith("DHT")
LegacyDht(st, line, now) ==
    LET tkey == IF "TEMP" \in DOMAIN line.kv THEN "TEMP" ELSE "DHT"
    IN IF ~LegacyOk(line, tkey) \/ ~LegacyOk(line, "HUM")
       THEN ShowNotification(st, "error")
       ELSE LET temp_c == FtoC(line.kv[tkey].v)
                hum == line.kv["HUM"].v
            IN ShowNotification(
                  LogData(AppendDhtData(st, temp_c, hum, now), "DHT Sensor",
                          <<Num(temp_c), Num(hum)>>),
                  "data")

\* the generic KEY:VALUE scan, keys upper-cased
LegacyGeneric(st, line, now) ==
    LET pairs == IF IsLegacyForm(line) THEN line.kv ELSE EmptyMap
        keys == {Upper(key) : key \in DOMAIN pairs}
        data(K) == pairs[CHOOSE key \in DOMAIN pairs : Upper(key) = K].v
    IN IF \E key \in DOMAIN pairs : pairs[key].k # "num"
       THEN ShowNotification(st, "error")
       ELSE IF {"YAW", "PITCH", "ROLL"} \subseteq keys
       THEN ShowNotification(Update3dOrientation(
               LogData([st EXCEPT !.yaw = data("YAW"), !.pitch = data("PITCH"),
                                  !.roll = data("ROLL")],
                       "3D Orientation",
                       <<Num(data("YAW")), Num(data("PITCH")), Num(data("ROLL"))>>)),
               "data")
       ELSE IF {"TEMP", "HUM"} \subseteq keys
       THEN ShowNotification(
               LogData(AppendDhtData(st, FtoC(data("TEMP")), data("HUM"), now),
                       "DHT Sensor", <<Num(FtoC(data("TEMP"))), Num(data("HUM"))>>),
               "data")
       ELSE IF "TEMP" \in keys
       THEN ShowNotification(
               LogData(AppendDhtData(st, FtoC(data("TEMP")), 0, now),
                       "Temperature", <<Num(FtoC(data("TEMP")))>>),
               "data")
       ELSE IF "HUM" \in keys
       THEN ShowNotification(
               LogData(AppendDhtData(st, 0, data("HUM"), now),
                       "Humidity", <<Num(data("HUM"))>>),
               "data")
       ELSE ShowNotification(st, "unrecognized")

Legacy(st, line, now) ==
    IF IsLegacyForm(line) /\ line.head = "YAW" THEN LegacyYaw(st, line, now)
    ELSE IF IsLegacyForm(line) /\ line.head \in {"TEMP", "DHT"}
    THEN LegacyDht(st, line, now)
    ELSE LegacyGeneric(st, line, now)

\* a faulty variant of Cascade: the delimited decoder is tried before the
\* frame aggregator
CascadeCsvFirst(st, line, now) ==
    LET c == ParseCsvSensorLine(st, line)
        a == TryParseAs7341(c.st, line, now)
        Test(s) == RegexMatches(s, line)
        idx == FirstIndex(a.st.active_sensors, Test)
        out(s, path, frame) ==
            [st |-> [s EXCEPT !.raised = FALSE], path |-> path, frame |-> frame,
             raised |-> s.raised]
    IN IF c.ret THEN out(c.st, "csv", EmptyMap)
       ELSE IF a.st.raised \/ a.ret THEN out(a.st, "as7341", a.frame)
       ELSE IF idx # 0
       THEN out(IngestTemplateSensor(a.st, a.st.active_sensors[idx],
                                     GroupDict(a.st.active_sensors[idx], line), now),
                "tpl", EmptyMap)
       ELSE out(Legacy(a.st, line, now), "legacy", EmptyMap)

\* one non-empty line through the decoding paths, in the order of read_serial;
\* returns [st, path, frame, raised]
Cascade(st, line, now) ==
    LET a == TryParseAs7341(st, line, now)
        c == ParseCsvSensorLine(a.st, line)
        Test(s) == RegexMatches(s, line)
        idx == FirstIndex(a.st.active_sensors, Test)
        out(s, path, frame) ==
            [st |-> [s EXCEPT !.raised = FALSE], path |-> path, frame |-> frame,
             raised |-> s.raised]
    IN IF a.st.raised \/ a.ret THEN out(a.st, "as7341", a.frame)
       ELSE IF c.ret THEN out(c.st, "csv", EmptyMap)
       ELSE IF idx # 0
       THEN out(IngestTemplateSensor(a.st, a.st.active_sensors[idx],
                                     GroupDict(a.st.active_sensors[idx], line), now),
                "tpl", EmptyMap)
       ELSE out(Legacy(a.st, line, now), "legacy", EmptyMap)

(***************************************************************************)
(* Lines                                                                   *)
(***************************************************************************)
EmptyLine == [form |-> "empty", head |-> "", toks |-> << >>, kv |-> EmptyMap]
Csv(head, toks) == [form |-> "csv", head |-> head, toks |-> toks, kv |-> EmptyMap]
Kv(head, kv) == [form |-> "kv", head |-> head, toks |-> << >>, kv |-> kv]
Banner == [form |-> "banner", head |-> "AS7341", toks |-> << >>, kv |-> EmptyMap]
Tpl(head, toks) == [form |-> "tpl", head |-> head, toks |-> toks, kv |-> EmptyMap]
Leg(head, kv) == [form |-> "legacy", head |-> head, toks |-> << >>, kv |-> kv]
\* the pairs of kv separated by commas, the pair of key head first; a token
\* KEY:VALUE is not a number for float()
LegC(head, kv) ==
    [form |-> "legacyc", head |-> head,
     toks |-> [i \in 1..(Cardinality(DOMAIN kv) - 1) |-> Str], kv |-> kv]
Text == [form |-> "text", head |-> "", toks |-> << >>, kv |-> EmptyMap]

(***************************************************************************)
(* Initial state: SeaLinkApp.__init__                                      *)
(***************************************************************************)
InitWith(Sources) ==
    /\ is_connected = FALSE
    /\ pc = "idle"
    /\ no_data_counter = 0
    /\ clock = 0
    /\ template_source \in Sources
    /\ template_cache = NotLoaded
    /\ active_sensors = << >>
    /\ generic_streams = EmptyMap
    \* t is 0.0 on the wall clock, long before the program started
    /\ as7341_buf = [data |-> EmptyMap, t |-> 0 - (StaleWindow + 1)]
    /\ time_data = << >>
    /\ temp_data = << >>
    /\ hum_data = << >>
    /\ yaw = 0
    /\ pitch = 0
    /\ roll = 0
    /\ cal_yaw = 0
    /\ cal_pitch = 0
    /\ cal_roll = 0
    /\ view3d = [yaw |-> 0, pitch |-> 0, roll |-> 0]
    /\ data_log = << >>
    /\ after_queue = << >>
    /\ sensors_refresh_pending = FALSE
    /\ as7341_bars = {}
    /\ sensor_cards = << >>
    /\ notes = [kind \in NoteKinds |-> 0]
    /\ nread = 0
    /\ last = [kind |-> "init", line |-> EmptyLine, path |-> "none",
               frame |-> EmptyMap, raised |-> FALSE, matching |-> 0]
    /\ empty_run = [strict |-> 0, quiet |-> 0, nondata |-> 0]
    /\ hist = [climate |-> << >>, generic |-> EmptyMap]
    /\ seen = [val |-> EmptyMap, last_key_at |-> 0, stale |-> {}, keys |-> {},
               last_line_at |-> 0]
    /\ stale_threads = 0
    /\ serial_conn = "none"
    /\ port_lost = FALSE
    /\ ingest_pc = 0

(***************************************************************************)
(* Actions                                                                 *)
(***************************************************************************)
\* connect_serial, the port opening: starts a new read thread, whether or
\* not the thread of the previous connection has ended; a port whose device
\* is gone does not open
ConnectSerial ==
    /\ ~is_connected
    /\ ~port_lost
    /\ is_connected' = TRUE
    /\ serial_conn' = "open"
    /\ pc' = "running"
    /\ stale_threads' = stale_threads + (IF pc = "running" THEN 1 ELSE 0)
    /\ no_data_counter' = 0
    /\ UNCHANGED <<port_lost, ingest_pc>>
    /\ empty_run' = [strict |-> 0, quiet |-> 0, nondata |-> 0]
    /\ UNCHANGED <<clock, template_source, template_cache, active_sensors,
                   generic_streams, as7341_buf, time_data, temp_data, hum_data,
                   yaw, pitch, roll, cal_yaw, cal_pitch, cal_roll, view3d,
                   data_log, after_queue,
                   sensors_refresh_pending, as7341_bars, sensor_cards, notes,
                   nread, last,
                   hist, seen>>

\* disconnect_serial: clears the flag and closes the port
DisconnectSerial ==
    /\ is_connected
    /\ is_connected' = FALSE
    /\ serial_conn' = IF serial_conn = "open" THEN "closed" ELSE serial_conn
    /\ UNCHANGED <<stale_threads, port_lost, ingest_pc>>
    /\ UNCHANGED <<pc, no_data_counter, clock, template_source, template_cache,
                   active_sensors, generic_streams, as7341_buf, time_data,
                   temp_data, hum_data, yaw, pitch, roll, cal_yaw, cal_pitch,
                   cal_roll, view3d, data_log, after_queue,
                   sensors_refresh_pending, as7341_bars, sensor_cards, notes,
                   nread, last,
                   empty_run, hist, seen>>

\* while self.is_connected: false
ThreadExit ==
    /\ pc = "running"
    /\ ~is_connected
    /\ pc' = "exited"
    /\ UNCHANGED thread_vars
    /\ UNCHANGED <<is_connected, no_data_counter, clock, template_source,
                   template_cache, active_sensors, generic_streams, as7341_buf,
                   time_data, temp_data, hum_data, yaw, pitch, roll, cal_yaw,
                   cal_pitch, cal_roll, view3d, data_log,
                   after_queue, sensors_refresh_pending, as7341_bars,
                   sensor_cards, notes,
                   nread, last, empty_run, hist, seen>>

\* the count kept by "if not line"
NoDataStep(counter) == counter + 1

\* a faulty variant of NoDataDue: due on every empty read from the threshold on
NoDataDueFromThreshold(counter) == counter >= NoDataThreshold

\* if no_data_counter == 10
NoDataDue(counter) == counter = NoDataThreshold

\* readline() times out after d: an empty line
ReadEmpty(d) ==
    /\ pc = "running"
    /\ is_connected
    /\ ~port_lost
    /\ UNCHANGED thread_vars
    /\ clock' = clock + d
    /\ nread' = nread + 1
    /\ no_data_counter' = NoDataStep(no_data_counter)
    /\ Commit(IF NoDataDue(NoDataStep(no_data_counter))
              THEN ShowNotification(Prog, "nodata") ELSE Prog)
    /\ empty_run' = [strict |-> empty_run.strict + 1,
                     quiet |-> empty_run.quiet + 1,
                     nondata |-> empty_run.nondata + 1]
    /\ last' = [kind |-> "empty", line |-> EmptyLine, path |-> "none",
                frame |-> EmptyMap, raised |-> FALSE, matching |-> 0]
    /\ UNCHANGED <<is_connected, pc, template_source>>

\* a faulty variant of ReadError: a failed read ends the loop
ReadErrorStops(d) ==
    /\ pc = "running"
    /\ is_connected
    /\ UNCHANGED thread_vars
    /\ clock' = clock + d
    /\ nread' = nread + 1
    /\ pc' = "exited"
    /\ empty_run' = [empty_run EXCEPT !.strict = 0]
    /\ last' = [kind |-> "error", line |-> EmptyLine, path |-> "none",
                frame |-> EmptyMap, raised |-> TRUE, matching |-> 0]
    /\ UNCHANGED <<is_connected, no_data_counter, template_source>>
    /\ UNCHANGED prog_vars

\* readline() raises: logged, the loop continues
ReadError(d) ==
    /\ pc = "running"
    /\ is_connected
    /\ UNCHANGED thread_vars
    /\ clock' = clock + d
    /\ nread' = nread + 1
    /\ empty_run' = [empty_run EXCEPT !.strict = 0]
    /\ last' = [kind |-> "error", line |-> EmptyLine, path |-> "none",
                frame |-> EmptyMap, raised |-> TRUE, matching |-> 0]
    /\ UNCHANGED <<is_connected, pc, no_data_counter, template_source,
                   template_cache, active_sensors, generic_streams, as7341_buf,
                   time_data, temp_data, hum_data, yaw, pitch, roll, cal_yaw,
                   cal_pitch, cal_roll, view3d, data_log,
                   after_queue, sensors_refresh_pending, as7341_bars,
                   sensor_cards, notes,
                   hist, seen>>

\* the keys the legacy decoder knows
LegacyKeys == {"YAW", "PITCH", "ROLL", "TEMP", "HUM", "DHT"}
CarriesLegacyKey(line) == \E key \in DOMAIN line.kv : Upper(key) \in LegacyKeys

\* readline() returns a non-empty line after d
ReadLine(d, line) ==
    /\ pc = "running"
    /\ is_connected
    /\ ~port_lost
    /\ UNCHANGED thread_vars
    /\ clock' = clock + d
    /\ nread' = nread + 1
    /\ no_data_counter' = 0
    /\ \E r \in {Cascade(Prog, line, clock + d)} :
          /\ Commit(r.st)
          /\ empty_run' = [strict |-> 0, quiet |-> 0,
                           nondata |-> IF r.path = "legacy" /\ ~CarriesLegacyKey(line)
                                       THEN empty_run.nondata + 1 ELSE 0]
          /\ last' = [kind |-> "line", line |-> line, path |-> r.path,
                      frame |-> r.frame, raised |-> r.raised,
                      matching |-> Cardinality(
                          {i \in 1..Len(active_sensors) :
                              RegexMatches(active_sensors[i], line)})]
    /\ UNCHANGED <<is_connected, pc, template_source>>

\* the UI thread runs the oldest callback queued by the delimited decoder
RunAfter ==
    /\ UNCHANGED thread_vars
    /\ after_queue # << >>
    /\ LET job == Head(after_queue)
           st0 == [Prog EXCEPT !.after_queue = Tail(@)]
       IN \E st1 \in {IngestTemplateSensor(st0, job.sensor, job.data, clock)} :
             Commit([st1 EXCEPT !.raised = FALSE])
    /\ UNCHANGED <<is_connected, pc, no_data_counter, clock, template_source,
                   nread, last, empty_run>>

\* _do_sensors_refresh, 250 ms after the request
DoSensorsRefresh ==
    /\ UNCHANGED thread_vars
    /\ sensors_refresh_pending
    /\ Commit(BuildSensorsTab([Prog EXCEPT !.sensors_refresh_pending = FALSE]))
    /\ UNCHANGED <<is_connected, pc, no_data_counter, clock, template_source,
                   nread, last, empty_run>>

\* calibrate_sensor: the Calibrate button, enabled while connected
CalibrateSensor ==
    /\ UNCHANGED thread_vars
    /\ is_connected
    /\ Commit(ShowNotification(
                 [Prog EXCEPT !.cal_yaw = yaw, !.cal_pitch = pitch,
                              !.cal_roll = roll],
                 "calibrated"))
    /\ UNCHANGED <<is_connected, pc, no_data_counter, clock, template_source,
                   nread, last, empty_run>>

\* the types the add-sensor dialog offers
DialogTypes(st) ==
    IF DOMAIN st.template_cache.map # {} THEN DOMAIN st.template_cache.map
    ELSE {"DHT11", "MPU6050"}

\* open_add_sensor_dialog and its Save button
AddSensor(s_type, name_entry) ==
    LET stL == LoadTemplatesIfNeeded(Prog)
        s_name == IF name_entry = "" THEN s_type ELSE name_entry
        sensor == IF HasTemplate(stL, s_type)
                  THEN [type |-> s_type, name |-> s_name,
                        fields |-> TemplateOf(stL, s_type).fields,
                        compiled |-> TemplateOf(stL, s_type).compiled]
                  ELSE [type |-> s_type, name |-> s_name, fields |-> << >>,
                        compiled |-> FALSE]
    IN /\ s_type \in DialogTypes(stL)
       /\ UNCHANGED thread_vars
       /\ \E st1 \in {BuildSensorsTab(InitStream(
                    [stL EXCEPT !.active_sensors = Append(@, sensor)], sensor))} :
             Commit(st1)
       /\ UNCHANGED <<is_connected, pc, no_data_counter, clock, template_source,
                      nread, last, empty_run>>

(***************************************************************************)
(* Spec: the delimited decoder with registration.  The device sends        *)
(* delimited lines; the user may add sensors through the dialog.  The      *)
(* reads are 0.1 s apart, so the 250 ms refresh timer does not expire      *)
(* within the MaxReads reads of a run.                                     *)
(***************************************************************************)
MaxReads == 3
MaxSensors == 2

SrcAbsent == [state |-> "absent", tpls |-> << >>]
SrcMalformed == [state |-> "malformed", tpls |-> << >>]
SrcTwo ==
    [state |-> "ok",
     tpls |-> <<[type |-> "MPU6050", fields |-> <<"YAW", "PITCH", "ROLL">>,
                 regex |-> FALSE, valid |-> TRUE],
                [type |-> "BME280", fields |-> <<"T", "P">>,
                 regex |-> TRUE, valid |-> TRUE]>>]

MainLines ==
    {Csv("TDS", <<Num(450)>>), Csv("tds", <<Num(7), Str>>),
     Csv("MPU6050", <<Num(10), Num(-5), Num(2)>>),
     Csv("ITG/MPU6050", <<Num(1), Num(2), Num(3)>>),
     Csv("DS18B20", <<Num(-127)>>), Csv("DS18B20", <<Num(-120)>>)}

DialogNames == {"", "TDS"}

Init == InitWith({SrcAbsent, SrcTwo})

Next ==
    \/ ConnectSerial
    \/ \E line \in MainLines : nread < MaxReads /\ ReadLine(1, line)
    \/ RunAfter
    \/ \E s_type \in {"DHT11", "MPU6050", "BME280"}, name_entry \in DialogNames :
          Len(active_sensors) < MaxSensors /\ AddSensor(s_type, name_entry)

Spec == Init /\ [][Next]_vars

(***************************************************************************)
(* Properties checked under Spec                                           *)
(***************************************************************************)
\* a step that is one iteration of read_serial on a non-empty line
LineStep == nread' = nread + 1 /\ last'.kind = "line"
\* a step in which the UI thread runs a queued ingest
AfterStep == after_queue # << >> /\ after_queue' = Tail(after_queue)

SeriesAligned(stream) ==
    \A key \in DOMAIN stream : Len(stream[key]) = Len(stream["time"])

\* C2: in every state (every append has returned or raised) each field
\* series of each stream is as long as the stream's time series.
C2_StreamsAligned ==
    \A name \in DOMAIN generic_streams : SeriesAligned(generic_streams[name])

TypeActive(sensors, T) == \E i \in 1..Len(sensors) : Upper(sensors[i].type) = T

Registers(T) ==
    /\ Len(active_sensors') = Len(active_sensors) + 1
    /\ SubSeq(active_sensors', 1, Len(active_sensors)) = active_sensors
    /\ active_sensors'[Len(active_sensors')].name = T

\* C5 as stated: a delimited line of a type no active sensor has registers
\* exactly one sensor named after the type; a line of a type some active
\* sensor has registers none.
C5_OncePerType ==
    [][(LineStep /\ last'.path = "csv") =>
          LET T == Upper(last'.line.head)
          IN IF TypeActive(active_sensors, T)
             THEN active_sensors' = active_sensors
             ELSE Registers(T)]_vars

\* the types the delimited decoder takes for T: T itself, and for MPU6050
\* also ITG/MPU6050
Aliases(T) == IF T = "MPU6050" THEN {"MPU6050", "ITG/MPU6050"} ELSE {T}

\* C5 amended: a delimited line of type T registers exactly one sensor,
\* named T, when no active sensor has type T or an alias of T, and none
\* otherwise; so of several lines of one type only the first registers.
C5_OncePerTypeOrAlias ==
    [][(LineStep /\ last'.path = "csv") =>
          LET T == Upper(last'.line.head)
          IN IF \E A \in Aliases(T) : TypeActive(active_sensors, A)
             THEN active_sensors' = active_sensors
             ELSE Registers(T)]_vars

\* two TDS lines (one written "tds") were read and ingested, one sensor exists
C5_Witness ==
    /\ "TDS" \in DOMAIN hist.generic
    /\ Len(hist.generic["TDS"]) >= 2
    /\ Cardinality({i \in 1..Len(active_sensors) :
                       active_sensors[i].type = "TDS"}) = 1
    /\ last.kind = "line" /\ last.line.head = "tds"

\* C6: no two active sensors have the same name.
C6_UniqueNames ==
    \A i, j \in 1..Len(active_sensors) :
        i # j => active_sensors[i].name # active_sensors[j].name

\* C7: when the reading of a line "MPU6050,a,b,c" is ingested, yaw, pitch
\* and roll become a, b and c, and the reading is stored under "MPU6050".
C7_Mpu6050Decoded ==
    [][(AfterStep /\ Upper(Head(after_queue).line.head) = "MPU6050"
                  /\ Len(Head(after_queue).line.toks) = 3) =>
          LET toks == Head(after_queue).line.toks
          IN /\ yaw' = FloatOrZero(toks[1])
             /\ pitch' = FloatOrZero(toks[2])
             /\ roll' = FloatOrZero(toks[3])
             /\ Head(after_queue).sensor.name = "MPU6050"]_vars

LineValues(line) == [i \in 1..Len(line.toks) |-> FloatOrZero(line.toks[i])]
NoSensorFor(T) == \A A \in Aliases(T) : ~TypeActive(active_sensors, A)

\* C8: a delimited line (not a sentinel) with n values whose type has no
\* template and no active sensor registers a sensor named after the type
\* with fields F1..Fn, and when its reading is ingested the sample
\* {F1: v1, ..., Fn: vn} is appended to the stream of that name.
C8_GenericFallback ==
    [][/\ (/\ LineStep
           /\ last'.path = "csv"
           /\ ~HasTemplate(LoadTemplatesIfNeeded(Prog), last'.line.head)
           /\ NoSensorFor(Upper(last'.line.head))
           /\ ~IsSentinel(Upper(last'.line.head), LineValues(last'.line)))
          => (/\ Registers(Upper(last'.line.head))
              /\ active_sensors'[Len(active_sensors')].fields
                    = GenericFields(Len(last'.line.toks))
              /\ Len(after_queue') = Len(after_queue) + 1)
       /\ (/\ AfterStep
           /\ Head(after_queue).sensor.fields
                 = GenericFields(Len(Head(after_queue).line.toks))
           /\ Head(after_queue).sensor.name = Upper(Head(after_queue).line.head))
          => (LET job == Head(after_queue)
                  old == Get(generic_streams, job.sensor.name, EmptyStream)
                  new == generic_streams'[job.sensor.name]
              IN \A i \in 1..Len(job.line.toks) :
                    LET f == GenericFields(Len(job.line.toks))[i]
                    IN /\ f \in DOMAIN new
                       /\ new[f] = LastN(Append(Get(old, f, << >>),
                                                FloatOrZero(job.line.toks[i])),
                                         GenericCap))]_vars

\* C9: a DS18B20 line whose first value is at or below -120 is consumed by
\* the delimited path, stores no sample in any stream, queues no reading
\* and logs no record.
C9_SentinelIgnored ==
    [][(LineStep /\ last'.line.form = "csv"
                 /\ Upper(last'.line.head) = "DS18B20"
                 /\ FloatOrZero(last'.line.toks[1]) <= -120) =>
          /\ last'.path = "csv"
          /\ \A name \in DOMAIN generic_streams' :
                IF name \in DOMAIN generic_streams
                THEN generic_streams'[name] = generic_streams[name]
                ELSE \A key \in DOMAIN generic_streams'[name] :
                        generic_streams'[name][key] = << >>
          /\ UNCHANGED <<time_data, temp_data, hum_data, data_log, after_queue,
                         yaw, pitch, roll>>]_vars

\* a sentinel line was just read while earlier readings are stored
C9_Witness ==
    /\ last.kind = "line"
    /\ last.line.form = "csv"
    /\ last.line.head = "DS18B20"
    /\ FloatOrZero(last.line.toks[1]) <= -120
    /\ data_log # << >>

(***************************************************************************)
(* SpecAgg: the frame aggregator.  The device prints the ten channels of   *)
(* the spectrometer whole or split over lines, with banner lines in        *)
(* between, 1.0 s or 1.6 s after the previous line; the refresh timer runs.*)
(***************************************************************************)
MaxReadsAgg == 4

Channels(keys, val) == [key \in keys |-> Num(val)]
LowKeys == {"F1", "F2", "F3", "F4", "F5"}
HighKeys == AS7341KeySet \ LowKeys

AggLines ==
    {Kv("", Channels(LowKeys, 1)), Kv("", Channels(LowKeys, 2)),
     Kv("", Channels(HighKeys, 1)), Kv("AS7341", Channels(AS7341KeySet, 3)),
     Banner}

AggGaps == {10, 16}

InitAgg == InitWith({SrcAbsent})

NextAgg ==
    \/ ConnectSerial
    \/ \E d \in AggGaps, line \in AggLines :
          nread < MaxReadsAgg /\ ReadLine(d, line)
    \/ DoSensorsRefresh

SpecAgg == InitAgg /\ [][NextAgg]_vars

\* the keys received on lines following one another within 1.5 s, up to
\* and including the line being read
ChainKeys ==
    (IF clock' - seen.last_line_at > 15 THEN {} ELSE seen.keys)
       \cup DOMAIN Matches(last'.line)

\* C3: a line read within the window of its predecessors emits a reading
\* exactly when it brings the last missing key; the reading is logged once,
\* carries exactly the ten keys with the value last received for each, and
\* leaves the buffer empty.
C3_OneFramePerCompleteSet ==
    [][LineStep =>
          /\ (last'.frame # EmptyMap) <=> (AS7341KeySet \subseteq ChainKeys)
          /\ (last'.frame # EmptyMap) =>
                /\ DOMAIN last'.frame = AS7341KeySet
                /\ \A key \in AS7341KeySet : last'.frame[key] = seen'.val[key]
                /\ as7341_buf'.data = EmptyMap
                /\ Len(data_log') = Len(data_log) + 1
                /\ data_log'[Len(data_log')].sensor = "AS7341"
          /\ (last'.frame = EmptyMap) => data_log' = data_log]_vars

\* a reading was emitted on a line that carried only part of the keys, one
\* of the keys having been overwritten before
C3_Witness ==
    /\ last.frame # EmptyMap
    /\ DOMAIN Matches(last.line) = HighKeys
    /\ last.frame["F1"] = 2
    /\ nread >= 3

\* C4: no value is kept in the buffer, and none enters an emitted reading,
\* from before a gap of more than 1.5 s between one key update and the next.
C4_NoStaleCompletion ==
    /\ DOMAIN as7341_buf.data \cap seen.stale = {}
    /\ (last.frame # EmptyMap) => seen.stale = {}

(***************************************************************************)
(* SpecStore: the stream store under a long feed.  The device sends        *)
(* "BME280,<k>,<k>" lines (k counts the BME280 samples stored) and         *)
(* "TEMP:<f> HUM:<k>" lines (k counts the climate samples, f = 32 + 9k     *)
(* degrees Fahrenheit, 5k degrees Celsius): the first EdgeReads lines in   *)
(* any order, then two BME280 lines for each climate line.  Among the      *)
(* first and the last EdgeReads lines it may also send a line in the       *)
(* template's format whose second value is not a number.  The UI thread    *)
(* runs each queued ingest before the next line is read; the refresh timer *)
(* runs at any time.                                                       *)
(***************************************************************************)
MaxReadsStore == 306
EdgeReads == 3

StoreCsv ==
    LET k == Len(Get(hist.generic, "BME280", << >>)) + 1
    IN Csv("BME280", <<Num(k), Num(k)>>)
StoreDht ==
    LET k == Len(hist.climate) + 1
    IN Leg("TEMP", [key \in {"TEMP", "HUM"} |->
                      IF key = "TEMP" THEN Num(32 + 9 * k) ELSE Num(k)])
StoreBad == Tpl("BME280", <<Num(0), Str>>)

InitStore == InitWith({SrcAbsent, SrcMalformed, SrcTwo})

\* the lines the device may send as read number nread + 1
StoreLines ==
    (IF nread < EdgeReads \/ nread % 3 # 2 THEN {StoreCsv} ELSE {})
    \cup (IF nread < EdgeReads \/ nread % 3 = 2 THEN {StoreDht} ELSE {})
    \cup (IF nread < EdgeReads \/ nread >= MaxReadsStore - EdgeReads
          THEN {StoreBad} ELSE {})

NextStore ==
    \/ ConnectSerial
    \/ \E line \in StoreLines :
          nread < MaxReadsStore /\ after_queue = << >> /\ ReadLine(1, line)
    \/ RunAfter
    \/ DoSensorsRefresh

SpecStore == InitStore /\ [][NextStore]_vars

\* the most recent min(Len(h), cap) elements of h, in order
Recent(h, cap) ==
    LET n == IF Len(h) < cap THEN Len(h) ELSE cap
    IN [i \in 1..n |-> h[Len(h) - n + i]]

\* C1: each series of a sensor's stream holds the most recent 200 of the
\* samples appended to it, and each climate series the most recent 100, in
\* arrival order.
C1_MostRecentKept ==
    /\ time_data = Recent([i \in 1..Len(hist.climate) |-> hist.climate[i].t], 100)
    /\ temp_data = Recent([i \in 1..Len(hist.climate) |-> hist.climate[i].temp], 100)
    /\ hum_data = Recent([i \in 1..Len(hist.climate) |-> hist.climate[i].hum], 100)
    /\ \A i \in 1..Len(active_sensors) :
          LET s == active_sensors[i]
              h == Get(hist.generic, s.name, << >>)
              stream == generic_streams[s.name]
          IN /\ stream["time"] = Recent([k \in 1..Len(h) |-> h[k].t], 200)
             /\ \A j \in 1..Len(s.fields) :
                   stream[s.fields[j]]
                      = Recent([k \in 1..Len(h) |-> h[k].vals[j]], 200)

(***************************************************************************)
(* SpecLoop: the read loop on a quiet or failing port.  Reads time out,    *)
(* fail, or return a line no decoder recognizes; the user disconnects     *)
(* and, once the read thread has ended, reconnects.                        *)
(***************************************************************************)
MaxReadsLoop == 13

InitLoop == InitWith({SrcAbsent})

NextLoop ==
    \/ pc # "running" /\ ConnectSerial
    \/ nread < MaxReadsLoop /\ ReadEmpty(1)
    \/ nread < MaxReadsLoop /\ ReadError(1)
    \/ nread < MaxReadsLoop /\ ReadLine(1, Text)
    \/ DisconnectSerial
    \/ ThreadExit

SpecLoop == InitLoop /\ [][NextLoop]_vars

\* a step that is one iteration of read_serial on an empty read
EmptyStep == nread' = nread + 1 /\ last'.kind = "empty"

\* C10 as stated: the no-data warning fires exactly at the 10th empty read
\* of a run of consecutive empty reads and at no other step, and an empty
\* read leaves the loop running.
C10_OncePerEmptyRun ==
    [][/\ EmptyStep =>
            /\ pc' = "running"
            /\ notes'["nodata"] =
                  notes["nodata"] + (IF empty_run'.strict = 10 THEN 1 ELSE 0)
       /\ ~EmptyStep => notes'["nodata"] = notes["nodata"]]_vars

\* C10 amended: the warning fires exactly at the 10th empty read since the
\* last non-empty line (or since the loop started), failed reads in between
\* not counting and not restarting the count, and at no other step; an
\* empty read leaves the loop running.
C10_OncePerQuietRun ==
    [][/\ EmptyStep =>
            /\ pc' = "running"
            /\ notes'["nodata"] =
                  notes["nodata"] + (IF empty_run'.quiet = 10 THEN 1 ELSE 0)
       /\ ~EmptyStep => notes'["nodata"] = notes["nodata"]]_vars

\* twelve empty reads in a row have fired one warning
C10_Witness ==
    /\ last.kind = "empty"
    /\ empty_run.strict = 12
    /\ notes["nodata"] = 1
    /\ pc = "running"

\* all the notifications shown so far
Notifications == notes["nodata"] + notes["unrecognized"] + notes["error"]
                    + notes["data"] + notes["calibrated"]

\* C11: reading a non-empty line that no decoding path recognizes shows no
\* notification, except that the 10th read in a row that brought no data
\* (empty or unrecognized) shows exactly one warning.
C11_OneWarningPerRun ==
    [][(LineStep /\ empty_run'.nondata > 0) =>
          /\ no_data_counter' = empty_run'.nondata
          /\ Notifications' =
                Notifications + (IF empty_run'.nondata = 10 THEN 1 ELSE 0)]_vars

(***************************************************************************)
(* SpecLegacy: the legacy decoder.  The device sends KEY:VALUE lines with  *)
(* the built-in key sets, in upper or lower case, the tokens separated by  *)
(* blanks or by commas; there is no template file and no dialog use, so no *)
(* earlier path takes a blank-separated line.                              *)
(***************************************************************************)
MaxReadsLegacy == 3

SampleValue(K, temp_f) ==
    CASE K = "YAW" -> 10 [] K = "PITCH" -> 20 [] K = "ROLL" -> 30
      [] K = "TEMP" -> temp_f [] OTHER -> 40

Pairs(keys, temp_f) == [key \in keys |-> Num(SampleValue(Upper(key), temp_f))]

LegacyLines ==
    {Leg("YAW", Pairs({"YAW", "PITCH", "ROLL"}, 77)),
     Leg("YAW", Pairs({"YAW", "PITCH", "ROLL", "TEMP", "HUM"}, 77)),
     Leg("pitch", Pairs({"pitch", "yaw", "roll", "temp", "hum"}, 77)),
     Leg("TEMP", Pairs({"TEMP", "HUM"}, 77)),
     Leg("HUM", Pairs({"HUM", "TEMP"}, 50)),
     Leg("TEMP", Pairs({"TEMP"}, 77)),
     Leg("temp", Pairs({"temp"}, 50)),
     Leg("HUM", Pairs({"HUM"}, 77)),
     LegC("TEMP", Pairs({"TEMP", "HUM"}, 77)),
     LegC("YAW", Pairs({"YAW", "PITCH", "ROLL"}, 77))}

InitLegacy == InitWith({SrcAbsent})

NextLegacy ==
    \/ ConnectSerial
    \/ \E line \in LegacyLines : nread < MaxReadsLegacy /\ ReadLine(1, line)
    \/ RunAfter
    \/ DoSensorsRefresh

SpecLegacy == InitLegacy /\ [][NextLegacy]_vars

\* the keys of a line, upper-cased, and the value given for one of them
KeySet(line) == {Upper(key) : key \in DOMAIN line.kv}
ValueOf(line, K) == line.kv[CHOOSE key \in DOMAIN line.kv : Upper(key) = K].v

\* the Celsius value of a Fahrenheit temperature that converts exactly
ExactC(temp_f) == CHOOSE c \in -100..200 : 9 * c = 5 * (temp_f - 32)

\* C13: a line of comma-separated KEY:VALUE tokens is handled by the legacy
\* decoder with the effect of the same tokens separated by blanks: it
\* registers no sensor, queues no delimited reading, and the record, the
\* climate samples and the orientation are those of the blank-separated line.
C13_CommaLikeBlank ==
    [][(LineStep /\ last'.line.form = "legacyc") =>
          LET w == Cascade(Prog, Leg(last'.line.head, last'.line.kv), clock').st
          IN /\ last'.path = "legacy"
             /\ active_sensors' = active_sensors
             /\ after_queue' = after_queue
             /\ data_log' = w.data_log
             /\ temp_data' = w.temp_data
             /\ hum_data' = w.hum_data
             /\ <<yaw', pitch', roll'>> = <<w.yaw, w.pitch, w.roll>>]_vars

LegacyKeySets ==
    {{"YAW", "PITCH", "ROLL"}, {"YAW", "PITCH", "ROLL", "TEMP", "HUM"},
     {"TEMP", "HUM"}, {"TEMP"}, {"HUM"}}

\* the values of the record of a legacy line: the orientation if it has
\* one, else the temperature in Celsius and the humidity it carries
RecordOf(line) ==
    IF "YAW" \in KeySet(line)
    THEN <<Num(ValueOf(line, "YAW")), Num(ValueOf(line, "PITCH")),
           Num(ValueOf(line, "ROLL"))>>
    ELSE (IF "TEMP" \in KeySet(line)
          THEN <<Num(ExactC(ValueOf(line, "TEMP")))>> ELSE << >>)
         \o (IF "HUM" \in KeySet(line)
             THEN <<Num(ValueOf(line, "HUM"))>> ELSE << >>)

\* C14: a blank-separated line whose keys, in any order and case, are one
\* of the built-in sets and whose values are numbers is decoded by the
\* legacy path into exactly one record holding its values, and shows no
\* parse-error notification.
C14_BuiltinSetsDecoded ==
    [][(LineStep /\ last'.line.form = "legacy"
                 /\ KeySet(last'.line) \in LegacyKeySets) =>
          /\ last'.path = "legacy"
          /\ notes'["error"] = notes["error"]
          /\ data_log' = Append(data_log,
                                [sensor |-> data_log'[Len(data_log')].sensor,
                                 values |-> RecordOf(last'.line)])]_vars

\* C15: a blank-separated line with one of the built-in key sets that has
\* both TEMP (value F) and HUM appends one climate sample, of temperature
\* (F - 32) * 5 / 9 and the line's humidity.
C15_CelsiusOnEveryBranch ==
    [][(LineStep /\ last'.line.form = "legacy"
                 /\ KeySet(last'.line) \in LegacyKeySets
                 /\ {"TEMP", "HUM"} \subseteq KeySet(last'.line)) =>
          /\ Len(hist'.climate) = Len(hist.climate) + 1
          /\ 9 * hist'.climate[Len(hist'.climate)].temp
                = 5 * (ValueOf(last'.line, "TEMP") - 32)
          /\ hist'.climate[Len(hist'.climate)].hum = ValueOf(last'.line, "HUM")
          /\ temp_data'[Len(temp_data')] = hist'.climate[Len(hist'.climate)].temp]_vars

(***************************************************************************)
(* SpecPaths: the order of the decoding paths.  The device sends lines of  *)
(* every family, some of which more than one path could take; the user may *)
(* add BME280 sensors (whose template has a parser) through the dialog.    *)
(***************************************************************************)
MaxReadsPaths == 3

PathLines ==
    {Kv("AS7341", Channels(AS7341KeySet, 3)), Kv("AS7341", Channels(LowKeys, 1)),
     Banner, Csv("BME280", <<Num(1), Num(2)>>), Tpl("BME280", <<Num(3), Num(4)>>),
     Leg("TEMP", Pairs({"TEMP", "HUM"}, 77)),
     LegC("TEMP", Pairs({"TEMP", "HUM"}, 77)), Text}

PathNames == {"", "B2"}

InitPaths == InitWith({SrcAbsent, SrcTwo})

NextPaths ==
    \/ ConnectSerial
    \/ \E line \in PathLines : nread < MaxReadsPaths /\ ReadLine(1, line)
    \/ RunAfter
    \/ \E name_entry \in PathNames :
          Len(active_sensors) < MaxSensors /\ AddSensor("BME280", name_entry)

SpecPaths == InitPaths /\ [][NextPaths]_vars

\* the first path, in the order aggregator, delimited, templated, legacy,
\* whose own test accepts the line
FirstAccepting(line) ==
    IF DOMAIN Matches(line) # {} THEN "as7341"
    ELSE IF HasComma(line) THEN "csv"
    ELSE IF \E i \in 1..Len(active_sensors) : RegexMatches(active_sensors[i], line)
    THEN "tpl"
    ELSE "legacy"

\* the first active sensor, in registration order, whose parser matches
FirstMatching(line) ==
    active_sensors[CHOOSE i \in 1..Len(active_sensors) :
                      /\ RegexMatches(active_sensors[i], line)
                      /\ \A j \in 1..(i - 1) : ~RegexMatches(active_sensors[j], line)]

MaxReadsCal == 3
MaxCalibrations == 2

CalLines ==
    {Csv("MPU6050", <<Num(10), Num(-5), Num(2)>>),
     Leg("YAW", Pairs({"YAW", "PITCH", "ROLL", "TEMP", "HUM"}, 77)),
     Leg("pitch", Pairs({"pitch", "yaw", "roll"}, 77))}

InitCal == InitWith({SrcTwo})

NextCal ==
    \/ pc # "running" /\ ConnectSerial
    \/ \E line \in CalLines : nread < MaxReadsCal /\ ReadLine(1, line)
    \/ RunAfter
    \/ notes["calibrated"] < MaxCalibrations /\ CalibrateSensor
    \/ DisconnectSerial
    \/ ThreadExit

SpecCal == InitCal /\ [][NextCal]_vars

Raw == <<yaw, pitch, roll>>
Offset == <<cal_yaw, cal_pitch, cal_roll>>
Normalized == [yaw |-> yaw - cal_yaw, pitch |-> pitch - cal_pitch,
               roll |-> roll - cal_roll]

\* a step that logs an orientation reading
OrientationLogged ==
    /\ Len(data_log') = Len(data_log) + 1
    /\ data_log'[Len(data_log')].sensor = "3D Orientation"

\* a step that is a call of calibrate_sensor
CalibrateStep == notes'["calibrated"] = notes["calibrated"] + 1

\* a step that is a successful connect_serial
ConnectStep == ~is_connected /\ is_connected'

\* C16: every orientation reading logged holds the orientation received
\* minus the calibration offset in force.
C16_LoggedNormalized ==
    [][OrientationLogged =>
          data_log'[Len(data_log')].values
             = <<Num(yaw' - cal_yaw'), Num(pitch' - cal_pitch'),
                 Num(roll' - cal_roll')>>]_vars

\* C17: a successful connect leaves the offset (0, 0, 0), and no step other
\* than a connect or a calibration changes the offset.
C17_OffsetLifecycle ==
    [][/\ ConnectStep => Offset' = <<0, 0, 0>>
       /\ (~ConnectStep /\ ~CalibrateStep) => Offset' = Offset]_vars

\* C18: what is drawn is always the orientation minus the offset; drawing
\* again with the same orientation and offset draws the same; a calibration
\* sets the offset to the orientation and writes neither the orientation
\* nor the drawing, so a second calibration with no reading in between
\* leaves the offset as it is.
C18_NormalizationIdempotent ==
    [][/\ (view3d' # view3d) => view3d' = Normalized'
       /\ (Raw' = Raw /\ Offset' = Offset /\ view3d = Normalized)
             => view3d' = view3d
       /\ CalibrateStep => (Offset' = Raw /\ Raw' = Raw /\ view3d' = view3d)
       /\ (CalibrateStep /\ Offset = Raw) => Offset' = Offset]_vars

\* the user calibrated twice on a non-zero orientation, and the reading
\* calibrated on has arrived again and was drawn with that offset
C18_Witness ==
    /\ notes["calibrated"] = 2
    /\ cal_yaw # 0
    /\ Offset = Raw
    /\ view3d = Normalized
    /\ nread = 3
    /\ data_log[Len(data_log)] = data_log[Len(data_log) - 1]

(***************************************************************************)
(* SpecFields: the delimited decoder's mapping of values to fields and the *)
(* template registry.  The template file is absent, holds two valid        *)
(* templates, or holds one template whose parser pattern does not compile; *)
(* the device sends delimited lines with as many, fewer and more values    *)
(* than the sensor has fields, and with a value that is not a number.      *)
(***************************************************************************)
MaxReadsFields == 3

SrcInvalid ==
    [state |-> "ok",
     tpls |-> <<[type |-> "MPU6050", fields |-> <<"YAW", "PITCH", "ROLL">>,
                 regex |-> FALSE, valid |-> TRUE],
                [type |-> "BME280", fields |-> <<"T", "P">>,
                 regex |-> TRUE, valid |-> FALSE]>>]

FieldLines ==
    {Csv("BME280", <<Num(1), Num(2)>>), Csv("BME280", <<Num(5)>>),
     Csv("BME280", <<Num(1), Num(2), Num(3)>>), Csv("BME280", <<Str, Num(2)>>),
     Csv("MPU6050", <<Num(4), Num(5)>>),
     Csv("MPU6050", <<Num(1), Num(2), Num(3)>>)}

InitFields == InitWith({SrcAbsent, SrcTwo, SrcInvalid})

NextFields ==
    \/ ConnectSerial
    \/ \E line \in FieldLines : nread < MaxReadsFields /\ ReadLine(1, line)
    \/ RunAfter

SpecFields == InitFields /\ [][NextFields]_vars

\* the value at position j of a delimited line: the number written there,
\* 0.0 for a token that is not a number or a position past the end
ValueAt(line, j) ==
    IF j \in 1..Len(line.toks) /\ line.toks[j].k = "num" THEN line.toks[j].v
    ELSE 0

\* a step in which the delimited decoder queues the reading of its line
CsvQueued ==
    /\ LineStep
    /\ last'.path = "csv"
    /\ Len(after_queue') = Len(after_queue) + 1

\* the reading queued maps field i of its sensor to the value at position
\* i - shift of the line, and has no other key
MappedFrom(shift) ==
    LET job == after_queue'[Len(after_queue')]
    IN /\ DOMAIN job.data = Range(job.sensor.fields)
       /\ \A i \in 1..Len(job.sensor.fields) :
             job.data[job.sensor.fields[i]] = Num(ValueAt(last'.line, i - shift))

\* C19 as stated: the reading queued for a delimited line has exactly the
\* sensor's fields, field i holding the i-th value of the line, 0.0 where
\* that token is not a number or is missing; values past the last field
\* are dropped.
C19_PositionalPadTrim == [][CsvQueued => MappedFrom(0)]_vars

\* a line of type MPU6050 or ITG/MPU6050 with two values for a sensor of
\* three fields
PitchRollOnly ==
    LET job == after_queue'[Len(after_queue')]
    IN /\ Upper(last'.line.head) \in {"MPU6050", "ITG/MPU6050"}
       /\ Len(job.sensor.fields) = 3
       /\ Len(last'.line.toks) = 2

\* C19 amended: as stated, except that a line of type MPU6050 (or
\* ITG/MPU6050) with exactly two values for a sensor of three fields maps
\* them to the second and third field and gives the first field 0.0.
C19_PositionalExceptPitchRoll ==
    [][CsvQueued => IF PitchRollOnly THEN MappedFrom(1) ELSE MappedFrom(0)]_vars

\* readings with a short line, a non-numeric token and a long line were
\* queued, the last for a sensor that has fewer fields than the line values
C19_Witness ==
    /\ Len(after_queue) = 3
    /\ \E i \in 1..3 : Len(after_queue[i].line.toks) < Len(after_queue[i].sensor.fields)
    /\ \E i \in 1..3 : \E j \in 1..Len(after_queue[i].line.toks) :
          after_queue[i].line.toks[j].k = "str"
    /\ Len(after_queue[3].line.toks) > Len(after_queue[3].sensor.fields)
    /\ last.path = "csv"

\* C20: once the template file has been loaded, every template it holds,
\* the one with the invalid pattern included, is found by its type with its
\* fields, and has a compiled parser exactly if it has a valid pattern.
C20_InvalidPatternKept ==
    (template_cache.loaded /\ template_source.state = "ok") =>
        \A i \in 1..Len(template_source.tpls) :
            LET tpl == template_source.tpls[i]
            IN /\ HasTemplate(Prog, tpl.type)
               /\ TemplateOf(Prog, tpl.type).fields = tpl.fields
               /\ TemplateOf(Prog, tpl.type).compiled = (tpl.regex /\ tpl.valid)

(***************************************************************************)
(* SpecAgg, continued: what an emitted frame stores, and what a line that  *)
(* the aggregator hands on does to the buffer.                             *)
(***************************************************************************)
\* a step in which the aggregator emits a frame and its ingest returns
FrameStep == LineStep /\ last'.frame # EmptyMap /\ ~last'.raised

StoredSamples(streams, name) ==
    IF name \in DOMAIN streams THEN Len(streams[name]["time"]) ELSE 0

\* C27: when the aggregator emits a frame, the stream stored under "AS7341"
\* gains one timestamp and one sample for each of the ten keys, and the
\* record logged for the frame carries ten values.
C27_FrameStoredAsGenericReading ==
    [][FrameStep =>
          /\ "AS7341" \in DOMAIN generic_streams'
          /\ StoredSamples(generic_streams', "AS7341")
                = StoredSamples(generic_streams, "AS7341") + 1
          /\ \A key \in AS7341KeySet :
                /\ key \in DOMAIN generic_streams'["AS7341"]
                /\ Len(generic_streams'["AS7341"][key])
                      = StoredSamples(generic_streams', "AS7341")
          /\ Len(data_log'[Len(data_log')].values) = Cardinality(AS7341KeySet)]_vars

\* a step in which the aggregator returns False and the line goes on to the
\* delimited, templated or legacy path
DeclinedStep == LineStep /\ last'.path # "as7341"

\* C28: a line that the aggregator hands on to the later paths leaves the
\* buffered keys and the buffer's last-update time as they were.
C28_DeclinedLeavesBuffer ==
    [][DeclinedStep => as7341_buf' = as7341_buf]_vars

(***************************************************************************)
(* SpecLegacy, continued: a legacy line that ends in a parse error.        *)
(***************************************************************************)
\* a step in which the legacy branch reports a parse error
LegacyErrorStep ==
    LineStep /\ last'.path = "legacy" /\ notes'["error"] = notes["error"] + 1

\* C29: a legacy line that ends in a parse error leaves the orientation
\* state, the climate series and the data log as they were before the line.
C29_LegacyAllOrNothing ==
    [][LegacyErrorStep =>
          UNCHANGED <<yaw, pitch, roll, time_data, temp_data, hum_data,
                      data_log>>]_vars

(***************************************************************************)
(* Spec, continued: which thread changes the stores.  Reading a line is    *)
(* the ingestion thread's step; the Connect button, a deferred callback    *)
(* and the add-sensor dialog run on the UI thread.                         *)
(***************************************************************************)
UiThreadStep == nread' = nread

\* C25: no step of the UI thread changes the active sensors, the stream
\* store (generic streams and climate series) or the aggregation buffer.
C25_UiThreadNeverMutates ==
    [][UiThreadStep =>
          UNCHANGED <<active_sensors, generic_streams, time_data, temp_data,
                      hum_data, as7341_buf>>]_vars


\* a step in which the ingestion thread registers a sensor it has not seen
RegistrationStep == LineStep /\ Len(active_sensors') > Len(active_sensors)

\* C26: a line that registers a sensor leaves the sensors view as it is and
\* leaves a refresh requested; the view is rebuilt by the timer only.
C26_RegistrationDebounced ==
    [][RegistrationStep =>
          /\ sensor_cards' = sensor_cards
          /\ sensors_refresh_pending']_vars

(***************************************************************************)
(* SpecThreads: the connection's life cycle.  The user connects and        *)
(* disconnects at any time, also before the read thread of the previous    *)
(* connection has ended; reads time out, fail, or return well-formed and   *)
(* malformed lines; the device may be unplugged, after which every read    *)
(* fails.                                                                  *)
(***************************************************************************)
MaxReadsThreads == 4
MaxStale == 1

\* the device is unplugged: from now on readline() raises on every call
PortLost ==
    /\ serial_conn = "open"
    /\ ~port_lost
    /\ port_lost' = TRUE
    /\ UNCHANGED <<is_connected, pc, no_data_counter, clock, template_source,
                   nread, last, empty_run, stale_threads, serial_conn,
                   ingest_pc>>
    /\ UNCHANGED prog_vars

\* a read thread of an earlier connection finds is_connected true again and
\* reads a line from self.serial_conn, now the handle of the new connection
StaleRead(d, line) ==
    /\ stale_threads > 0
    /\ is_connected
    /\ ~port_lost
    /\ clock' = clock + d
    /\ nread' = nread + 1
    /\ \E r \in {Cascade(Prog, line, clock + d)} :
          /\ Commit(r.st)
          /\ last' = [kind |-> "stale", line |-> line, path |-> r.path,
                      frame |-> r.frame, raised |-> r.raised,
                      matching |-> Cardinality({i \in 1..Len(active_sensors) :
                                      RegexMatches(active_sensors[i], line)})]
    /\ UNCHANGED <<is_connected, pc, no_data_counter, template_source,
                   empty_run>>
    /\ UNCHANGED thread_vars

\* while self.is_connected: false, in a read thread of an earlier connection
StaleExit ==
    /\ stale_threads > 0
    /\ ~is_connected
    /\ stale_threads' = stale_threads - 1
    /\ UNCHANGED <<is_connected, pc, no_data_counter, clock, template_source,
                   nread, last, empty_run, serial_conn, port_lost, ingest_pc>>
    /\ UNCHANGED prog_vars

\* unparseable text, a line with keys missing, a line with a value that is
\* not a number, a delimited line, and a line in a template's format whose
\* second value is not a number
ThreadLines ==
    {Text,
     Leg("YAW", Pairs({"YAW", "PITCH", "ROLL"}, 77)),
     Leg("TEMP", [key \in {"TEMP", "HUM"} |-> IF key = "TEMP" THEN Str ELSE Num(40)]),
     Csv("BME280", <<Num(1), Num(2)>>),
     Tpl("BME280", <<Num(3), Str>>)}

InitThreads == InitWith({SrcTwo})

NextThreads ==
    \/ stale_threads + (IF pc = "running" THEN 1 ELSE 0) <= MaxStale
          /\ ConnectSerial
    \/ DisconnectSerial
    \/ ThreadExit
    \/ StaleExit
    \/ PortLost
    \/ nread < MaxReadsThreads /\ ReadEmpty(1)
    \/ nread < MaxReadsThreads /\ ReadError(1)
    \/ \E line \in ThreadLines : nread < MaxReadsThreads /\ ReadLine(1, line)
    \/ nread < MaxReadsThreads /\ StaleRead(1, Text)
    \/ RunAfter

SpecThreads == InitThreads /\ [][NextThreads]_vars

\* a step in which the read thread of the current connection has called
\* readline()
ReadStep == nread' = nread + 1 /\ last'.kind # "stale"

\* C21: whatever a read brings (a failure, an empty line, a line that does
\* not decode or whose decoding raises) the loop is still running after it;
\* a read thread ends only in a step that finds is_connected false.
C21_LoopSurvivesFaults ==
    [][/\ ReadStep => pc' = "running"
       /\ (pc = "running" /\ pc' # "running") => ~is_connected
       /\ (stale_threads' < stale_threads) => ~is_connected]_vars

\* after a line with keys missing, a delimited line, a line whose decoding
\* raised and a failed read, the loop is running
C21_Witness ==
    /\ nread = MaxReadsThreads
    /\ last.kind = "error"
    /\ notes["error"] = 1
    /\ yaw = 10
    /\ Len(active_sensors) = 1
    /\ "BME280" \in DOMAIN generic_streams
    /\ Len(generic_streams["BME280"]["time"]) = 2
    /\ pc = "running"
    /\ is_connected


\* a step in which readline() raises in the current read thread
ErrorStep == nread' = nread + 1 /\ last'.kind = "error"

\* C22: the loop ends only after a stop signal or on a lost port; a read that
\* fails because the port is lost ends the loop and shows one notification.
C22_PortFailureDisconnects ==
    [][/\ (pc = "running" /\ pc' # "running") => (~is_connected \/ port_lost)
       /\ (ErrorStep /\ port_lost) =>
             /\ pc' = "exited"
             /\ Notifications' = Notifications + 1]_vars

\* a step in which the open port is closed
PortCloses == serial_conn = "open" /\ serial_conn' = "closed"

\* C23: the port is closed in the step in which the read thread leaves its
\* loop, no read thread being left to read from it.
C23_PortClosedByThread ==
    [][PortCloses =>
          /\ pc = "running" /\ pc' = "exited"
          /\ stale_threads' = 0]_vars

\* C24: while connected no read thread of an earlier connection is alive,
\* and no such thread reads a line.
C24_OneReaderPerConnection ==
    [][/\ is_connected' => stale_threads' = 0
       /\ (nread' = nread + 1) => last'.kind # "stale"]_vars

(***************************************************************************)
(* SpecAppend: the appends statement by statement.  The device sends       *)
(* well-formed delimited lines of plotted sensor types; the UI thread runs *)
(* each deferred ingest one statement at a time, and the read thread reads *)
(* (and, for a new sensor type, rebuilds the sensors view) in between.     *)
(***************************************************************************)
MaxReadsAppend == 3

AppendLines == {Csv("TDS", <<Num(450)>>), Csv("SOIL", <<Num(3), Num(4)>>)}

\* the generic branch of _ingest_template_sensor, one statement per step:
\* the append to the time series; then, for each field, the append to and
\* the trim of its series; then the trim of the time series with log_data
\* and request_sensors_refresh
IngestStatement ==
    /\ after_queue # << >>
    /\ LET job == Head(after_queue)
           s_name == job.sensor.name
           fields == job.sensor.fields
           stream == Get(generic_streams, s_name, EmptyStream)
       IN /\ Upper(job.sensor.type) \in PlotTypes
          /\ IF ingest_pc = 0
             THEN /\ ingest_pc' = 1
                  /\ Commit([Prog EXCEPT !.generic_streams =
                        Put(@, s_name,
                            Put(stream, "time", Append(stream["time"], clock)))])
             ELSE IF ingest_pc <= Len(fields)
             THEN \E res \in {AppendFields(stream, <<fields[ingest_pc]>>,
                                           job.data, 1)} :
                     IF res.ok
                     THEN /\ ingest_pc' = ingest_pc + 1
                          /\ Commit([Prog EXCEPT !.generic_streams =
                                        Put(@, s_name, res.stream)])
                     ELSE /\ ingest_pc' = 0
                          /\ Commit([Prog EXCEPT !.after_queue = Tail(@)])
             ELSE /\ ingest_pc' = 0
                  /\ Commit(RequestSensorsRefresh(LogData(
                        [Prog EXCEPT
                           !.after_queue = Tail(@),
                           !.generic_streams =
                              Put(@, s_name,
                                  Put(stream, "time",
                                      LastN(stream["time"], GenericCap))),
                           !.hist.generic =
                              Put(@, s_name,
                                  Append(Get(@, s_name, << >>),
                                         [t |-> stream["time"][Len(stream["time"])],
                                          vals |-> [i \in 1..Len(fields) |->
                                                      Get(job.data, fields[i],
                                                          Num(0)).v]]))],
                        Upper(job.sensor.type),
                        [i \in 1..Len(fields) |->
                            Get(job.data, fields[i], NoneTok)])))
    /\ UNCHANGED <<is_connected, pc, no_data_counter, clock, template_source,
                   nread, last, empty_run, stale_threads, serial_conn,
                   port_lost>>

InitAppend == InitWith({SrcAbsent})

NextAppend ==
    \/ ConnectSerial
    \/ \E line \in AppendLines : nread < MaxReadsAppend /\ ReadLine(1, line)
    \/ IngestStatement

SpecAppend == InitAppend /\ [][NextAppend]_vars

\* C30: no card of the sensors view was built from a stream whose time
\* series and field series differed in length.
C30_ConsumerSeesWholeSamples ==
    \A i \in 1..Len(sensor_cards) : sensor_cards[i] # "torn"

====
